---------------------------- MODULE Spec2Model ----------------------------
(***************************************************************************)
(* A model of src/src/connection.rs of threema-gateway-rs: the blob ID     *)
(* codec (BlobId::new, BlobId::from_str, Display), map_response_code, and  *)
(* the three endpoint functions send_simple, send_e2e and blob_upload,     *)
(* each taken step by step in the order of its statements.                 *)
(*                                                                         *)
(* A Rust str is modelled as what it is, a sequence of UTF-8 bytes         *)
(* (numbers 0..255); literals are written as tuples of characters and      *)
(* turned into bytes by AsBytes.  The opaque arguments from, to and secret *)
(* are TLA+ strings, and the text of send_simple is a sequence of runs of  *)
(* equal-width characters, so that its byte count and its character count  *)
(* differ.                                                                 *)
(***************************************************************************)
EXTENDS Integers, Sequences, FiniteSets, TLC

VARIABLES
    pc,        \* position of the one call in progress ("idle" when none)
    fn,        \* the function being executed
    args,      \* its arguments
    blob,      \* Option<BlobId> held by the caller of the codec
    str,       \* Option<String> handed to / produced by the codec
    parsed,    \* Option<Result<BlobId, ApiError>> of BlobId::from_str
    printed,   \* Option<String>: to_string() of the parsed ID
    params,    \* Option<HashMap>: the POST parameters built so far
    request,   \* Option<request>: what was handed to the transport
    response,  \* Option<response>: status (and body once read)
    ret,       \* Option<Result<_, ApiError>>: the value returned
    steps      \* the statements of the call executed so far, in order

vars == << pc, fn, args, blob, str, parsed, printed,
           params, request, response, ret, steps >>

---------------------------------------------------------------------------
(* Bounds of the model (not program constants).                            *)

\* How many bytes of whitespace the environment puts on each side of a
\* sample string (blob_upload response bodies, from_str inputs).
MaxPad == 2

\* Length of the longest generated nonce and ciphertext of send_e2e, in bytes.
MaxData == 2

---------------------------------------------------------------------------
(* Option and Result.                                                      *)

None == << >>
Some(x) == << x >>
IsSome(o) == o # << >>
Unwrap(o) == o[1]

\* errors.rs is not part of the sources at hand; an ApiError is modelled by
\* the name of its variant and, for Other, its message.
ApiError(kind) == [kind |-> kind, msg |-> ""]
Other(msg) == [kind |-> "Other", msg |-> msg]
NoError == [kind |-> "", msg |-> ""]

Ok(v) == [ok |-> TRUE, val |-> v, err |-> NoError]
Err(e) == [ok |-> FALSE, val |-> << >>, err |-> e]
Unit == << >>

---------------------------------------------------------------------------
(* Characters and bytes.                                                   *)

\* The printable ASCII characters, in code order from 32 (space) to 126
\* (code 96, the grave accent, is never written and has a placeholder).
Printable == <<
    " ", "!", "\"", "#", "$", "%", "&", "'", "(", ")", "*", "+", ",", "-", ".", "/",
    "0", "1", "2", "3", "4", "5", "6", "7", "8", "9", ":", ";", "<", "=", ">", "?",
    "@", "A", "B", "C", "D", "E", "F", "G", "H", "I", "J", "K", "L", "M", "N", "O",
    "P", "Q", "R", "S", "T", "U", "V", "W", "X", "Y", "Z", "[", "\\", "]", "^", "_",
    "(grave)", "a", "b", "c", "d", "e", "f", "g", "h", "i", "j", "k", "l", "m", "n", "o",
    "p", "q", "r", "s", "t", "u", "v", "w", "x", "y", "z", "{", "|", "}", "~" >>

\* The byte of an ASCII character.
Code(c) ==
    IF c = "\n" THEN 10
    ELSE IF c = "\r" THEN 13
    ELSE IF c = "\t" THEN 9
    ELSE 31 + (CHOOSE i \in 1..Len(Printable) : Printable[i] = c)

\* str::as_bytes of an ASCII literal written as a tuple of characters.
AsBytes(chars) == [i \in 1..Len(chars) |-> Code(chars[i])]

Byte == 0..255

---------------------------------------------------------------------------
(* data_encoding::HEXLOWER and HEXLOWER_PERMISSIVE, as used on lines 30,   *)
(* 44, 154 and 155.                                                        *)

\* The symbols of HEXLOWER, by value: the bytes of "0123456789abcdef".
HexSymbols == << 48, 49, 50, 51, 52, 53, 54, 55,
                 56, 57, 97, 98, 99, 100, 101, 102 >>

\* A variant of HexlowerEncode that writes the low nibble first.
HexlowerEncodeLowFirst(bytes) ==
    [i \in 1..(2 * Len(bytes)) |->
        LET b == bytes[(i + 1) \div 2]
        IN  IF i % 2 = 1 THEN HexSymbols[(b % 16) + 1]
                         ELSE HexSymbols[(b \div 16) + 1]]

\* HEXLOWER.encode: two symbols per byte, high nibble first.
HexlowerEncode(bytes) ==
    [i \in 1..(2 * Len(bytes)) |->
        LET b == bytes[(i + 1) \div 2]
        IN  IF i % 2 = 1 THEN HexSymbols[(b \div 16) + 1]
                         ELSE HexSymbols[(b % 16) + 1]]

\* The value table of HEXLOWER_PERMISSIVE: the symbols 0..9 and a..f,
\* and A..F translated to a..f; -1 for every other byte.  No byte is
\* ignored (the encoding has no padding and no ignored characters).
HexPermissiveValue(b) ==
    IF b >= 48 /\ b <= 57 THEN b - 48
    ELSE IF b >= 97 /\ b <= 102 THEN b - 87
    ELSE IF b >= 65 /\ b <= 70 THEN b - 55
    ELSE -1

\* HEXLOWER_PERMISSIVE.decode: an error for an odd length or for any byte
\* that is not a symbol, else one byte per pair of symbols.
HexPermissiveDecode(input) ==
    IF Len(input) % 2 # 0
       \/ \E i \in 1..Len(input) : HexPermissiveValue(input[i]) = -1
    THEN [ok |-> FALSE, bytes |-> << >>]
    ELSE [ok |-> TRUE,
          bytes |-> [i \in 1..(Len(input) \div 2) |->
                        16 * HexPermissiveValue(input[2 * i - 1])
                           + HexPermissiveValue(input[2 * i])]]

---------------------------------------------------------------------------
(* BlobId (lines 18-46).                                                   *)

\* The length of the array in struct BlobId(pub [u8; 16]).
BlobIdLen == 16

\* BlobId::new
BlobIdNew(id) == id

\* A variant of BlobIdFromStr that trims ASCII whitespace before decoding.
BlobIdFromStrTrimming(id) ==
    LET isWs(b) == b \in {9, 10, 11, 12, 13, 32}
        first == IF \E i \in 1..Len(id) : ~isWs(id[i])
                 THEN CHOOSE i \in 1..Len(id) :
                        ~isWs(id[i]) /\ \A j \in 1..(i - 1) : isWs(id[j])
                 ELSE Len(id) + 1
        last == IF \E i \in 1..Len(id) : ~isWs(id[i])
                THEN CHOOSE i \in 1..Len(id) :
                        ~isWs(id[i]) /\ \A j \in (i + 1)..Len(id) : isWs(id[j])
                ELSE Len(id)
        decoded == HexPermissiveDecode(SubSeq(id, first, last))
    IN  IF ~decoded.ok \/ Len(decoded.bytes) # BlobIdLen
        THEN Err(ApiError("BadBlobId"))
        ELSE Ok(decoded.bytes)

\* BlobId::from_str
BlobIdFromStr(id) ==
    LET decoded == HexPermissiveDecode(id)
    IN  IF ~decoded.ok THEN Err(ApiError("BadBlobId"))
        ELSE IF Len(decoded.bytes) # BlobIdLen THEN Err(ApiError("BadBlobId"))
        ELSE Ok([i \in 1..BlobIdLen |-> decoded.bytes[i]])

\* A variant of BlobIdDisplay that prints upper-case digits.
BlobIdDisplayUpper(id) ==
    [i \in 1..(2 * Len(id)) |->
        LET c == HexlowerEncode(id)[i]
        IN  IF c >= 97 /\ c <= 102 THEN c - 32 ELSE c]

\* impl fmt::Display for BlobId
BlobIdDisplay(id) == HexlowerEncode(id)

---------------------------------------------------------------------------
(* map_response_code (lines 48-73).                                        *)

\* hyper's StatusCode::canonical_reason for the statuses the environment
\* answers with; a number hyper has no variant for is Unregistered(n) and
\* has no reason.
CanonicalReason(status) ==
    CASE status = 200 -> "OK"
      [] status = 201 -> "Created"
      [] status = 204 -> "No Content"
      [] status = 400 -> "Bad Request"
      [] status = 401 -> "Unauthorized"
      [] status = 402 -> "Payment Required"
      [] status = 403 -> "Forbidden"
      [] status = 404 -> "Not Found"
      [] status = 413 -> "Payload Too Large"
      [] status = 429 -> "Too Many Requests"
      [] status = 500 -> "Internal Server Error"
      [] status = 503 -> "Service Unavailable"
      [] OTHER -> "<unknown status code>"

\* impl Display for StatusCode (hyper, re-exported by reqwest), used by
\* format!("... {}", status) on lines 59 and 71: the number, a space, and
\* the canonical reason, "<unknown status code>" when there is none.
StatusDisplay(status) ==
    ToString(status) \o " " \o CanonicalReason(status)

\* A variant of map_response_code that ignores the meaning of a 400.
map_response_code_ignoring_meaning(status, bad_request_meaning) ==
    CASE status = 200 -> Ok(Unit)
      [] status = 400 ->
            Err(Other("Bad response status code: " \o StatusDisplay(400)))
      [] status = 401 -> Err(ApiError("BadCredentials"))
      [] status = 402 -> Err(ApiError("NoCredits"))
      [] status = 404 -> Err(ApiError("IdNotFound"))
      [] status = 413 -> Err(ApiError("MessageTooLong"))
      [] status = 500 -> Err(ApiError("ServerError"))
      [] OTHER ->
            Err(Other("Bad response status code: " \o StatusDisplay(status)))

\* A variant of map_response_code that returns the supplied meaning for
\* every status but 200.
map_response_code_meaning_first(status, bad_request_meaning) ==
    IF status # 200 /\ IsSome(bad_request_meaning)
    THEN Err(Unwrap(bad_request_meaning))
    ELSE map_response_code_ignoring_meaning(status, bad_request_meaning)

\* map_response_code
map_response_code(status, bad_request_meaning) ==
    CASE status = 200 -> Ok(Unit)
      [] status = 400 ->
            IF IsSome(bad_request_meaning)
            THEN Err(Unwrap(bad_request_meaning))
            ELSE Err(Other("Bad response status code: " \o StatusDisplay(400)))
      [] status = 401 -> Err(ApiError("BadCredentials"))
      [] status = 402 -> Err(ApiError("NoCredits"))
      [] status = 404 -> Err(ApiError("IdNotFound"))
      [] status = 413 -> Err(ApiError("MessageTooLong"))
      [] status = 500 -> Err(ApiError("ServerError"))
      [] OTHER ->
            Err(Other("Bad response status code: " \o StatusDisplay(status)))

---------------------------------------------------------------------------
(* Helpers of the endpoint functions.                                      *)

\* The limit of the check on line 107.
MaxTextBytes == 3500

\* A variant of TextLen that counts characters (text.chars().count()).
RECURSIVE TextChars(_)
TextChars(text) ==
    IF text = << >> THEN 0 ELSE Head(text).n + TextChars(Tail(text))

\* text.len(): the UTF-8 byte count of a text given as runs [w, n] of n
\* characters of w bytes each.
RECURSIVE TextLen(_)
TextLen(text) ==
    IF text = << >> THEN 0
    ELSE Head(text).w * Head(text).n + TextLen(Tail(text))

\* HashMap::new and HashMap::insert: an insert replaces the value of a key
\* that is present.
EmptyMap == [k \in {} |-> ""]

\* A variant of Insert that keeps the value of a key that is present.
InsertKeepOld(m, k, v) ==
    [x \in DOMAIN m \cup {k} |-> IF x \in DOMAIN m THEN m[x] ELSE v]

Insert(m, k, v) ==
    [x \in DOMAIN m \cup {k} |-> IF x = k THEN v ELSE m[x]]

\* str::trim: the White_Space characters at both ends are removed.  Those
\* of one byte and of two bytes (U+0085, U+00A0) are modelled; the sample
\* bodies hold no three-byte character.
AsciiWhiteSpace == {9, 10, 11, 12, 13, 32}

RECURSIVE TrimStart(_)
TrimStart(s) ==
    IF Len(s) >= 1 /\ s[1] \in AsciiWhiteSpace
    THEN TrimStart(Tail(s))
    ELSE IF Len(s) >= 2 /\ s[1] = 194 /\ s[2] \in {133, 160}
    THEN TrimStart(SubSeq(s, 3, Len(s)))
    ELSE s

RECURSIVE TrimEnd(_)
TrimEnd(s) ==
    IF Len(s) >= 1 /\ s[Len(s)] \in AsciiWhiteSpace
    THEN TrimEnd(SubSeq(s, 1, Len(s) - 1))
    ELSE IF Len(s) >= 2 /\ s[Len(s) - 1] = 194 /\ s[Len(s)] \in {133, 160}
    THEN TrimEnd(SubSeq(s, 1, Len(s) - 2))
    ELSE s

StrTrim(s) == TrimEnd(TrimStart(s))

\* The boundary of line 179 and the literals of lines 181-189.
boundary == AsBytes(<<
    "3", "m", "a", "-", "d", "8", "4", "f", "6", "4", "f", "5", "-", "a", "1", "3",
    "8", "-", "4", "b", "0", "a", "-", "9", "e", "2", "5", "-", "3", "3", "9", "2",
    "5", "7", "9", "9", "0", "c", "8", "1", "-", "3", "m", "a" >>)

DashDash == AsBytes(<< "-", "-" >>)
CRLF == AsBytes(<< "\r", "\n" >>)

DispositionLine == AsBytes(<<
    "C", "o", "n", "t", "e", "n", "t", "-", "D", "i", "s", "p", "o", "s", "i", "t",
    "i", "o", "n", ":", " ", "f", "o", "r", "m", "-", "d", "a", "t", "a", ";", " ",
    "n", "a", "m", "e", "=", "\"", "b", "l", "o", "b", "\"", "\r", "\n" >>)

TypeLine == AsBytes(<<
    "C", "o", "n", "t", "e", "n", "t", "-", "T", "y", "p", "e", ":", " ", "a", "p",
    "p", "l", "i", "c", "a", "t", "i", "o", "n", "/", "o", "c", "t", "e", "t", "-",
    "s", "t", "r", "e", "a", "m", "\r", "\n", "\r", "\n" >>)

\* A variant of ReqBody without the line break that ends the ciphertext.
ReqBodyNoClosingCRLF(ciphertext) ==
    DashDash \o boundary \o CRLF
      \o DispositionLine
      \o TypeLine
      \o ciphertext
      \o DashDash \o boundary \o DashDash \o CRLF

\* req_body of blob_upload (lines 180-189).
ReqBody(ciphertext) ==
    DashDash \o boundary \o CRLF
      \o DispositionLine
      \o TypeLine
      \o ciphertext
      \o CRLF \o DashDash
      \o boundary
      \o DashDash \o CRLF

\* A variant of BadRequestMeaning that supplies no meaning.
BadRequestMeaningNone(f) == None

\* The meaning each endpoint gives a 400 response (lines 127, 162, 200).
BadRequestMeaning(f) ==
    IF f = "blob_upload" THEN Some(ApiError("BadBlob"))
    ELSE Some(ApiError("BadSenderOrRecipient"))

---------------------------------------------------------------------------
(* The inputs the callers and the environment supply.                      *)

\* The array of the test on lines 244-247.
TestVector == << 0, 1, 2, 3, 4, 5, 6, 7, 8, 9, 10, 11, 12, 13, 14, 255 >>

PatternIds ==
    { [i \in 1..BlobIdLen |-> (a + (i - 1) * d) % 256] :
        a \in {0, 250}, d \in {0, 17, 239} } \cup {TestVector}

\* Every byte value at every position of the array.
OneByteIds ==
    { [TestVector EXCEPT ![i] = v] : i \in 1..BlobIdLen, v \in Byte }

SampleIds == PatternIds \cup OneByteIds

\* s with the letters a..f at the positions P in upper case.
UpperAt(s, P) ==
    [i \in 1..Len(s) |->
        IF i \in P /\ s[i] >= 97 /\ s[i] <= 102 THEN s[i] - 32 ELSE s[i]]

\* The lower-case hex text of a byte: digit n is the byte of "0" plus n
\* below ten, and the byte of "a" plus n - 10 from ten on.
LowerDigit(n) == IF n < 10 THEN 48 + n ELSE 87 + n

LowerStr(id) ==
    [i \in 1..(2 * Len(id)) |->
        IF i % 2 = 1 THEN LowerDigit(id[(i + 1) \div 2] \div 16)
                     ELSE LowerDigit(id[i \div 2] % 16)]

CaseMasks ==
    { {}, 1..(2 * BlobIdLen), { i \in 1..(2 * BlobIdLen) : i % 2 = 1 } }
      \cup { {i} : i \in 1..(2 * BlobIdLen) }

ValidStrs ==
    { UpperAt(LowerStr(id), m) : id \in PatternIds, m \in CaseMasks }
      \cup { UpperAt(LowerStr(id), 1..(2 * BlobIdLen)) : id \in OneByteIds }

BaseStrs ==
    { LowerStr(TestVector),
      UpperAt(LowerStr([i \in 1..BlobIdLen |-> (250 + (i - 1) * 17) % 256]),
              { i \in 1..(2 * BlobIdLen) : i % 2 = 1 }) }

\* Bytes next to the three ranges of hex digits, and whitespace.
BadBytes == {0, 9, 10, 32, 45, 47, 58, 64, 71, 96, 103, 120}

InvalidCharStrs ==
    { [s EXCEPT ![i] = b] : s \in BaseStrs, i \in {1, 16, 17, 32}, b \in BadBytes }
      \cup { [s EXCEPT ![i] = 195, ![i + 1] = 160] : s \in BaseStrs, i \in {1, 31} }

WrongLenStrs ==
    { SubSeq(s, 1, n) : s \in BaseStrs, n \in {0, 1, 2, 16, 30, 31} }
      \cup { s \o SubSeq(s, 1, k) : s \in BaseStrs, k \in {1, 2, 32} }

\* Whitespace characters the pads are made of: "\n", " " and U+00A0 (two
\* bytes).
WhiteSpaceChars == { << 10 >>, << 32 >>, << 194, 160 >> }

RECURSIVE PadsUpTo(_)
PadsUpTo(n) ==
    IF n = 0 THEN { << >> }
    ELSE PadsUpTo(n - 1)
           \cup { p \o w : p \in PadsUpTo(n - 1), w \in WhiteSpaceChars }

Pads == PadsUpTo(MaxPad)

PadCores ==
    BaseStrs
      \cup { SubSeq(LowerStr(TestVector), 1, 31),
             [LowerStr(TestVector) EXCEPT ![16] = 32],
             << >> }

PaddedStrs == { l \o c \o r : l \in Pads, c \in PadCores, r \in Pads }

\* Texts with other whitespace around them: "\r\n", tab, form feed,
\* vertical tab, U+0085.
OtherPaddedStrs ==
    { l \o c \o r :
        l \in { << >>, << 9 >>, << 194, 133 >> },
        c \in BaseStrs \cup { SubSeq(LowerStr(TestVector), 1, 31) },
        r \in { << >>, << 13, 10 >>, << 194, 133 >>, << 12, 11 >> } }

\* Response bodies of blob_upload.
BodyStrs ==
    PaddedStrs \cup OtherPaddedStrs
      \cup { [s EXCEPT ![i] = b] :
               s \in { LowerStr(TestVector) }, i \in {1, 32}, b \in {32, 71, 103} }
      \cup { UpperAt(LowerStr(TestVector), m) : m \in CaseMasks }

\* The strings given to from_str.
SampleStrs ==
    ValidStrs \cup InvalidCharStrs \cup WrongLenStrs \cup BodyStrs

\* Response statuses.
Statuses == {200, 201, 204, 400, 401, 402, 403, 404, 413, 429, 500, 503, 999}

ApiErrors ==
    { ApiError(k) : k \in { "BadCredentials", "NoCredits", "IdNotFound",
                            "MessageTooLong", "BadBlobId", "BadSenderOrRecipient",
                            "BadBlob", "ServerError" } }
      \cup { Other("x") }

Meanings == { None } \cup { Some(e) : e \in ApiErrors }

Froms == { "TESTTEST", "*GATEWAY" }
Secrets == { "secret" }

\* Sender and recipient identities of send_e2e and blob_upload.
E2eFroms == { "*GATEWAY" }
E2eTos == { "ECHOECHO" }

Recipients ==
    { [tag |-> "Id", val |-> "ECHOECHO"],
      [tag |-> "Phone", val |-> "41791234567"],
      [tag |-> "Email", val |-> "test@example.com"] }

\* Texts around the limit, with characters of one to four bytes.
Texts ==
    { << >>,
      << [w |-> 1, n |-> 5] >>,
      << [w |-> 1, n |-> MaxTextBytes - 1] >>,
      << [w |-> 1, n |-> MaxTextBytes] >>,
      << [w |-> 1, n |-> MaxTextBytes + 1] >>,
      << [w |-> 2, n |-> 1750] >>,
      << [w |-> 2, n |-> 1750], [w |-> 1, n |-> 1] >>,
      << [w |-> 2, n |-> 1751] >>,
      << [w |-> 2, n |-> 3000] >>,
      << [w |-> 3, n |-> 1166], [w |-> 1, n |-> 2] >>,
      << [w |-> 3, n |-> 1167] >>,
      << [w |-> 4, n |-> 875] >>,
      << [w |-> 4, n |-> 875], [w |-> 1, n |-> 1] >>,
      << [w |-> 1, n |-> 2 * MaxTextBytes] >> }

RECURSIVE SeqsUpTo(_, _)
SeqsUpTo(S, n) ==
    IF n = 0 THEN { << >> }
    ELSE SeqsUpTo(S, n - 1)
           \cup { q \o << b >> : q \in SeqsUpTo(S, n - 1), b \in S }

Nonces == SeqsUpTo({0, 171}, MaxData) \cup { << 0, 1, 15, 16, 255 >> }
E2eCiphertexts == SeqsUpTo({10, 255}, MaxData) \cup { << 9, 10, 160, 175, 250 >> }

\* Ciphertexts of blobs: short ones, and ones that hold the boundary or the
\* whole delimiter.
BlobCiphertexts ==
    { << >>, << 0 >>, << 13, 10 >>, << 45, 45 >>, << 255, 0, 10 >>,
      boundary,
             << 1, 2 >> \o DashDash \o boundary \o << 3 >>,
             DashDash \o boundary \o CRLF,
             << 7 >> \o CRLF \o DashDash \o boundary \o CRLF \o << 8 >>,
             CRLF \o DashDash \o boundary \o DashDash \o CRLF,
             CRLF \o CRLF \o << 255 >> }

AdditionalParams ==
    { None,
      Some(EmptyMap),
      Some([k \in {"noPush"} |-> "1"]),
      Some([k \in {"phone"} |-> "41791234567"]),
      Some([k \in {"email"} |-> "test@example.com"]),
      Some([k \in {"to"} |-> "OTHERID1"]),
      Some([k \in {"from", "secret"} |-> "forged"]),
      Some([k \in {"nonce", "box", "group"} |-> "zz"]) }

\* Bodies of the send endpoints (opaque text).
SendBodies == { << >>, AsBytes(<< "o", "k" >>), LowerStr(TestVector) }

---------------------------------------------------------------------------
(* The state machine.                                                      *)

Init ==
    /\ pc = "idle"
    /\ fn = ""
    /\ args = None
    /\ blob = None
    /\ str = None
    /\ parsed = None
    /\ printed = None
    /\ params = None
    /\ request = None
    /\ response = None
    /\ ret = None
    /\ steps = << >>

\* A caller builds an ID from an array (BlobId::new).
NewCall ==
    /\ pc = "idle"
    /\ \E b \in SampleIds :
           /\ pc' = "have_id"
           /\ fn' = "BlobId"
           /\ blob' = Some(BlobIdNew(b))
           /\ steps' = Append(steps, "new")
           /\ UNCHANGED << args, str, parsed, printed, params, request, response, ret >>

\* The caller prints the ID it built (to_string, through Display).
ToStringCall ==
    /\ pc = "have_id"
    /\ pc' = "have_str"
    /\ str' = Some(BlobIdDisplay(Unwrap(blob)))
    /\ steps' = Append(steps, "to_string")
    /\ UNCHANGED << fn, args, blob, parsed, printed, params, request, response, ret >>

\* The caller parses the text it printed (BlobId::from_str).
FromStrCall ==
    /\ pc = "have_str"
    /\ pc' = "parsed"
    /\ parsed' = Some(BlobIdFromStr(Unwrap(str)))
    /\ steps' = Append(steps, "from_str")
    /\ UNCHANGED << fn, args, blob, str, printed, params, request, response, ret >>

\* A caller parses a text of its own (BlobId::from_str).
FromStrInput ==
    /\ pc = "idle"
    /\ \E s \in SampleStrs :
           /\ pc' = "parsed"
           /\ fn' = "BlobId"
           /\ str' = Some(s)
           /\ parsed' = Some(BlobIdFromStr(s))
           /\ steps' = Append(steps, "from_str")
           /\ UNCHANGED << args, blob, printed, params, request, response, ret >>

\* The caller prints the ID it parsed.
ToStringParsed ==
    /\ pc = "parsed"
    /\ Unwrap(parsed).ok
    /\ pc' = "printed"
    /\ printed' = Some(BlobIdDisplay(Unwrap(parsed).val))
    /\ steps' = Append(steps, "to_string")
    /\ UNCHANGED << fn, args, blob, str, parsed, params, request, response, ret >>

\* A direct call of map_response_code.
MapResponseCodeCall ==
    /\ pc = "idle"
    /\ \E status \in Statuses, meaning \in Meanings :
           /\ pc' = "done"
           /\ fn' = "map_response_code"
           /\ args' = Some([status |-> status, bad_request_meaning |-> meaning])
           /\ ret' = Some(map_response_code(status, meaning))
           /\ steps' = Append(steps, "map_response_code")
           /\ UNCHANGED << blob, str, parsed, printed, params, request, response >>

\* Entry of send_simple, send_e2e and blob_upload.
SendSimpleCall ==
    /\ pc = "idle"
    /\ \E from \in Froms, to \in Recipients, secret \in Secrets, text \in Texts :
           /\ pc' = "client"
           /\ fn' = "send_simple"
           /\ args' = Some([from |-> from, to |-> to, secret |-> secret, text |-> text])
           /\ UNCHANGED << blob, str, parsed, printed, params, request, response, ret, steps >>

SendE2eCall ==
    /\ pc = "idle"
    /\ \E from \in E2eFroms, to \in E2eTos, secret \in Secrets, nonce \in Nonces,
          ciphertext \in E2eCiphertexts, additional_params \in AdditionalParams :
           /\ pc' = "client"
           /\ fn' = "send_e2e"
           /\ args' = Some([from |-> from, to |-> to, secret |-> secret, nonce |-> nonce,
                            ciphertext |-> ciphertext,
                            additional_params |-> additional_params])
           /\ UNCHANGED << blob, str, parsed, printed, params, request, response, ret, steps >>

BlobUploadCall ==
    /\ pc = "idle"
    /\ \E from \in E2eFroms, secret \in Secrets, ciphertext \in BlobCiphertexts :
           /\ pc' = "client"
           /\ fn' = "blob_upload"
           /\ args' = Some([from |-> from, secret |-> secret, ciphertext |-> ciphertext])
           /\ UNCHANGED << blob, str, parsed, printed, params, request, response, ret, steps >>

\* The statement after Client::new() in each function.
AfterClient(f) ==
    CASE f = "send_simple" -> "check"
      [] f = "send_e2e" -> "params"
      [] f = "blob_upload" -> "body"

\* Client::new().expect(...) (lines 103, 144, 173): the client, or a panic.
ClientNew ==
    /\ pc = "client"
    /\ steps' = Append(steps, "client_init")
    /\ \/ pc' = AfterClient(fn)
       \/ pc' = "panicked"
    /\ UNCHANGED << fn, args, blob, str, parsed, printed, params, request, response, ret >>

\* send_simple, lines 105-109: the length check.
SendSimpleCheckLen ==
    /\ pc = "check"
    /\ steps' = Append(steps, "length_check")
    /\ IF TextLen(Unwrap(args).text) > MaxTextBytes
       THEN /\ ret' = Some(Err(ApiError("MessageTooLong")))
            /\ pc' = "done"
       ELSE /\ ret' = ret
            /\ pc' = "params"
    /\ UNCHANGED << fn, args, blob, str, parsed, printed, params, request, response >>

\* send_simple, lines 111-120.
SendSimpleParamsOf(a) ==
    LET p0 == Insert(Insert(Insert(EmptyMap, "from", a.from), "text", a.text),
                     "secret", a.secret)
    IN  CASE a.to.tag = "Id" -> Insert(p0, "to", a.to.val)
          [] a.to.tag = "Phone" -> Insert(p0, "phone", a.to.val)
          [] a.to.tag = "Email" -> Insert(p0, "email", a.to.val)

\* send_e2e, lines 146-155.
SendE2eParamsOf(a) ==
    LET p0 == IF IsSome(a.additional_params) THEN Unwrap(a.additional_params)
              ELSE EmptyMap
        p1 == Insert(p0, "from", a.from)
        p2 == Insert(p1, "to", a.to)
        p3 == Insert(p2, "secret", a.secret)
        p4 == Insert(p3, "nonce", HexlowerEncode(a.nonce))
    IN  Insert(p4, "box", HexlowerEncode(a.ciphertext))

BuildParams ==
    /\ pc = "params"
    /\ pc' = "send"
    /\ params' = Some(IF fn = "send_simple" THEN SendSimpleParamsOf(Unwrap(args))
                      ELSE SendE2eParamsOf(Unwrap(args)))
    /\ steps' = Append(steps, "build_params")
    /\ UNCHANGED << fn, args, blob, str, parsed, printed, request, response, ret >>

\* blob_upload, lines 175-194: the URL, the body and the content type.
BlobUploadRequestOf(a) ==
    [ url |-> "MSGAPI_URL/upload_blob?from=" \o a.from \o "&secret=" \o a.secret,
      form |-> None,
      body |-> ReqBody(a.ciphertext),
      accept |-> "text/plain",
      content_type |-> [mime |-> "multipart/form-data", boundary |-> boundary] ]

BuildBody ==
    /\ pc = "body"
    /\ pc' = "send"
    /\ request' = Some(BlobUploadRequestOf(Unwrap(args)))
    /\ steps' = Append(steps, "build_body")
    /\ UNCHANGED << fn, args, blob, str, parsed, printed, params, response, ret >>

\* The request of send_simple and send_e2e (lines 123-126, 158-161).
FormRequestOf(f, p) ==
    [ url |-> "MSGAPI_URL/" \o f,
      form |-> Some(p),
      body |-> << >>,
      accept |-> "application/json",
      content_type |-> [mime |-> "application/x-www-form-urlencoded",
                        boundary |-> << >>] ]

\* client.post(..)...send() (lines 123-126, 158-161, 195-199): the transport
\* fails, and the error is returned through try!/?, or it answers with a
\* status.
Send ==
    /\ pc = "send"
    /\ steps' = Append(steps, "send")
    /\ request' = IF fn = "blob_upload" THEN request
                  ELSE Some(FormRequestOf(fn, Unwrap(params)))
    /\ \/ /\ ret' = Some(Err(ApiError("RequestError")))
          /\ pc' = "done"
          /\ response' = response
       \/ \E status \in Statuses :
            /\ response' = Some([status |-> status, body |-> None])
            /\ pc' = "classify"
            /\ ret' = ret
    /\ UNCHANGED << fn, args, blob, str, parsed, printed, params >>

\* try!(map_response_code(res.status(), Some(..))) (lines 127, 162, 200).
Classify ==
    /\ pc = "classify"
    /\ steps' = Append(steps, "map_response_code")
    /\ LET r == map_response_code(Unwrap(response).status, BadRequestMeaning(fn))
       IN  IF r.ok
           THEN /\ pc' = "read"
                /\ ret' = ret
           ELSE /\ pc' = "done"
                /\ ret' = Some(Err(r.err))
    /\ UNCHANGED << fn, args, blob, str, parsed, printed, params, request, response >>

\* res.read_to_string(&mut body) (lines 130-133, 165-168, 203-204): an I/O
\* error is returned; otherwise the send functions return the body.
ReadBody ==
    /\ pc = "read"
    /\ steps' = Append(steps, "read_body")
    /\ \/ /\ ret' = Some(Err(ApiError("IoError")))
          /\ pc' = "done"
          /\ response' = response
       \/ /\ fn # "blob_upload"
          /\ \E b \in SendBodies :
               /\ response' = Some([Unwrap(response) EXCEPT !.body = Some(b)])
               /\ ret' = Some(Ok(b))
               /\ pc' = "done"
       \/ /\ fn = "blob_upload"
          /\ \E b \in BodyStrs :
               /\ response' = Some([Unwrap(response) EXCEPT !.body = Some(b)])
               /\ ret' = ret
               /\ pc' = "parse"
    /\ UNCHANGED << fn, args, blob, str, parsed, printed, params, request >>

\* A variant of BlobUploadResultOf that parses the body as it is.
BlobUploadResultOfUntrimmed(body) == BlobIdFromStr(body)

\* blob_upload, line 206: BlobId::from_str(body.trim()).
BlobUploadResultOf(body) == BlobIdFromStr(StrTrim(body))

ParseBlobId ==
    /\ pc = "parse"
    /\ pc' = "done"
    /\ ret' = Some(BlobUploadResultOf(Unwrap(Unwrap(response).body)))
    /\ steps' = Append(steps, "from_str")
    /\ UNCHANGED << fn, args, blob, str, parsed, printed, params, request, response >>

Next ==
    \/ NewCall
    \/ ToStringCall
    \/ FromStrCall
    \/ FromStrInput
    \/ ToStringParsed
    \/ MapResponseCodeCall
    \/ SendSimpleCall
    \/ SendE2eCall
    \/ BlobUploadCall
    \/ ClientNew
    \/ SendSimpleCheckLen
    \/ BuildParams
    \/ BuildBody
    \/ Send
    \/ Classify
    \/ ReadBody
    \/ ParseBlobId

Spec == Init /\ [][Next]_vars

---------------------------------------------------------------------------
(* Properties.  Their helper definitions say what a claim means without    *)
(* using the operators that model the code.                                *)

HexDigitBytes == (48..57) \cup (65..70) \cup (97..102)

IsHex32(s) == Len(s) = 32 /\ \A i \in 1..Len(s) : s[i] \in HexDigitBytes

ToLower(s) ==
    [i \in 1..Len(s) |-> IF s[i] >= 65 /\ s[i] <= 90 THEN s[i] + 32 ELSE s[i]]

CodecDone == fn = "BlobId" /\ pc \in {"parsed", "printed"}

\* C1: for every 16-byte array b, parsing the text form of BlobId::new(b)
\* succeeds and yields an ID equal to BlobId::new(b).
C1_RoundTrip ==
    (CodecDone /\ IsSome(blob)) =>
        /\ Unwrap(parsed).ok
        /\ Unwrap(parsed).val = Unwrap(blob)

\* The array with 0xab first and 0x0f last was built, printed and parsed.
C1_Witness ==
    /\ CodecDone
    /\ IsSome(blob)
    /\ steps = << "new", "to_string", "from_str" >>
    /\ Unwrap(blob)[1] = 171
    /\ Unwrap(blob)[16] = 255
    /\ Unwrap(parsed).ok

\* C2: BlobId::from_str returns BadBlobId, and never an ID, for every string
\* whose length is not 32, for every string with a character that is no hex
\* digit, and for every string with leading or trailing whitespace; 32 hex
\* digits followed by "\n" are rejected (the input is not trimmed).
C2_Rejects ==
    (CodecDone /\ IsSome(str)) =>
        LET s == Unwrap(str)
            bad == \/ Len(s) # 32
                   \/ \E i \in 1..Len(s) : s[i] \notin HexDigitBytes
                   \/ /\ s # << >>
                      /\ \/ s[1] \in {9, 10, 13, 32}
                         \/ s[Len(s)] \in {9, 10, 13, 32}
        IN  bad => /\ ~Unwrap(parsed).ok
                   /\ Unwrap(parsed).err = ApiError("BadBlobId")
                   /\ pc # "printed"

\* The 32 digits of the test vector followed by "\n" were given and rejected.
C2_Witness ==
    /\ CodecDone
    /\ IsSome(str)
    /\ Unwrap(str) = LowerStr(TestVector) \o << 10 >>
    /\ ~Unwrap(parsed).ok

MapDone == fn = "map_response_code" /\ pc = "done"

\* C5: map_response_code returns Ok(()) exactly for status 200, and
\* BadCredentials, NoCredits, IdNotFound, MessageTooLong and ServerError for
\* 401, 402, 404, 413 and 500, whatever meaning of a 400 is supplied.
C5_FixedStatuses ==
    MapDone =>
        LET st == Unwrap(args).status
            r == Unwrap(ret)
        IN  /\ r.ok <=> st = 200
            /\ r.ok => r = Ok(Unit)
            /\ st = 401 => r = Err(ApiError("BadCredentials"))
            /\ st = 402 => r = Err(ApiError("NoCredits"))
            /\ st = 404 => r = Err(ApiError("IdNotFound"))
            /\ st = 413 => r = Err(ApiError("MessageTooLong"))
            /\ st = 500 => r = Err(ApiError("ServerError"))

\* Status 401 was mapped with BadBlob supplied as the meaning of a 400.
C5_Witness ==
    /\ MapDone
    /\ Unwrap(args).status = 401
    /\ Unwrap(args).bad_request_meaning = Some(ApiError("BadBlob"))
    /\ Unwrap(ret) = Err(ApiError("BadCredentials"))

NamedStatuses == {200, 400, 401, 402, 404, 413, 500}

\* C6 as stated: for 400 the supplied meaning, else
\* Other("Bad response status code: 400"); for every status outside
\* {200, 400, 401, 402, 404, 413, 500}, Other("Bad response status code: <n>")
\* with <n> the number of the status.
C6_AsStated ==
    MapDone =>
        LET st == Unwrap(args).status
            m == Unwrap(args).bad_request_meaning
            r == Unwrap(ret)
        IN  /\ (st = 400 /\ IsSome(m)) => r = Err(Unwrap(m))
            /\ (st = 400 /\ ~IsSome(m)) =>
                  r = Err(Other("Bad response status code: 400"))
            /\ st \notin NamedStatuses =>
                  r = Err(Other("Bad response status code: " \o ToString(st)))

\* C6 (amended): for 400 the supplied meaning, else Other with the message
\* "Bad response status code: 400 Bad Request"; for every status outside
\* {200, 400, 401, 402, 404, 413, 500}, with or without a meaning supplied,
\* Other with the message "Bad response status code: " followed by the
\* display form of the status: its number, a space and its reason phrase
\* ("<unknown status code>" for a number without one).
C6_Unclassified ==
    MapDone =>
        LET st == Unwrap(args).status
            m == Unwrap(args).bad_request_meaning
            r == Unwrap(ret)
            phrase == CASE st = 201 -> "Created"
                        [] st = 204 -> "No Content"
                        [] st = 403 -> "Forbidden"
                        [] st = 429 -> "Too Many Requests"
                        [] st = 503 -> "Service Unavailable"
                        [] OTHER -> "<unknown status code>"
        IN  /\ (st = 400 /\ IsSome(m)) => r = Err(Unwrap(m))
            /\ (st = 400 /\ ~IsSome(m)) =>
                  r = Err(Other("Bad response status code: 400 Bad Request"))
            /\ st \notin NamedStatuses =>
                  r = Err(Other("Bad response status code: "
                                  \o ToString(st) \o " " \o phrase))

\* Status 999 was mapped with BadBlob supplied as the meaning of a 400.
C6_Witness ==
    /\ MapDone
    /\ Unwrap(args).status = 999
    /\ Unwrap(args).bad_request_meaning = Some(ApiError("BadBlob"))
    /\ Unwrap(ret).err.kind = "Other"
    /\ Unwrap(ret).err.msg = "Bad response status code: 999 <unknown status code>"

\* The UTF-8 byte count of a text: the widths of its runs times their
\* lengths, summed from the last run to the first.
RECURSIVE Utf8ByteCount(_)
Utf8ByteCount(text) ==
    IF Len(text) = 0 THEN 0
    ELSE Utf8ByteCount(SubSeq(text, 1, Len(text) - 1))
           + text[Len(text)].n * text[Len(text)].w

Contains(q, x) == \E i \in 1..Len(q) : q[i] = x

TransportSteps == {"client_init", "build_params", "send"}

\* C4 as stated: in send_simple every text of more than 3500 bytes ends the
\* call with Err(MessageTooLong) and no transport step (client
\* initialisation, request building, network send) has happened before; a
\* text of at most 3500 bytes never ends with MessageTooLong from the check.
C4_AsStated ==
    (fn = "send_simple" /\ pc = "done") =>
        IF Utf8ByteCount(Unwrap(args).text) > 3500
        THEN /\ ret = Some(Err(ApiError("MessageTooLong")))
             /\ \A i \in 1..Len(steps) : steps[i] \notin TransportSteps
        ELSE ret = Some(Err(ApiError("MessageTooLong"))) => Contains(steps, "send")

\* C4 (amended): send_simple initialises the HTTP client first, and the
\* call aborts there if that fails.  Otherwise the check on the UTF-8 byte
\* count is the next step: for every text of more than 3500 bytes the call
\* ends with Err(MessageTooLong) and neither request building nor a network
\* send has happened; for a text of at most 3500 bytes the call never ends
\* with MessageTooLong because of the check (only a 413 response maps to it).
C4_CheckAfterClientInit ==
    fn = "send_simple" =>
        LET long == Utf8ByteCount(Unwrap(args).text) > 3500
        IN  /\ pc = "panicked" => steps = << "client_init" >> /\ ret = None
            /\ long =>
                 /\ ~Contains(steps, "build_params")
                 /\ ~Contains(steps, "send")
                 /\ params = None /\ request = None /\ response = None
                 /\ pc = "done" =>
                      /\ ret = Some(Err(ApiError("MessageTooLong")))
                      /\ steps = << "client_init", "length_check" >>
            /\ ~long =>
                 /\ Contains(steps, "length_check") =>
                      pc \notin {"client", "check", "panicked"}
                 /\ ret = Some(Err(ApiError("MessageTooLong"))) =>
                      /\ Contains(steps, "send")
                      /\ Unwrap(response).status = 413

\* A text of 1750 two-byte characters and one more byte (3501 bytes, 1751
\* characters) was refused by the length check.
C4_Witness ==
    /\ fn = "send_simple"
    /\ Unwrap(args).text = << [w |-> 2, n |-> 1750], [w |-> 1, n |-> 1] >>
    /\ pc = "done"
    /\ ret = Some(Err(ApiError("MessageTooLong")))

\* The parts of a blob_upload response body: whitespace, the text between,
\* whitespace.
RECURSIVE AllWhite(_)
AllWhite(x) ==
    \/ x = << >>
    \/ /\ x[1] \in {9, 10, 11, 12, 13, 32}
       /\ AllWhite(SubSeq(x, 2, Len(x)))
    \/ /\ Len(x) >= 2
       /\ x[1] = 194
       /\ x[2] \in {133, 160}
       /\ AllWhite(SubSeq(x, 3, Len(x)))

StartsWhite(t) ==
    /\ t # << >>
    /\ \/ t[1] \in {9, 10, 11, 12, 13, 32}
       \/ Len(t) >= 2 /\ t[1] = 194 /\ t[2] \in {133, 160}

EndsWhite(t) ==
    /\ t # << >>
    /\ \/ t[Len(t)] \in {9, 10, 11, 12, 13, 32}
       \/ Len(t) >= 2 /\ t[Len(t) - 1] = 194 /\ t[Len(t)] \in {133, 160}

\* t is body without the whitespace around it.
IsTrimOf(t, body) ==
    /\ ~StartsWhite(t)
    /\ ~EndsWhite(t)
    /\ \E i \in 1..(Len(body) + 1) :
          /\ i + Len(t) - 1 <= Len(body)
          /\ t = SubSeq(body, i, i + Len(t) - 1)
          /\ AllWhite(SubSeq(body, 1, i - 1))
          /\ AllWhite(SubSeq(body, i + Len(t), Len(body)))

\* The substring of body that is body without the whitespace around it.
Trimmed(body) ==
    LET i == CHOOSE k \in 1..(Len(body) + 1) :
                /\ AllWhite(SubSeq(body, 1, k - 1))
                /\ ~StartsWhite(SubSeq(body, k, Len(body)))
        j == CHOOSE k \in (i - 1)..Len(body) :
                /\ AllWhite(SubSeq(body, k + 1, Len(body)))
                /\ ~EndsWhite(SubSeq(body, i, k))
    IN  SubSeq(body, i, j)

BlobBodyRead ==
    /\ fn = "blob_upload"
    /\ pc = "done"
    /\ IsSome(response)
    /\ IsSome(Unwrap(response).body)

\* C7 as stated: on status 200 blob_upload parses the response body without
\* its surrounding whitespace; it returns that ID when the trimmed body is
\* 32 hex digits, and otherwise the error surfaced is BadBlob.
C7_AsStated ==
    BlobBodyRead =>
        LET t == Trimmed(Unwrap(Unwrap(response).body))
        IN  IF IsHex32(t)
            THEN /\ Unwrap(ret).ok
                 /\ LowerStr(Unwrap(ret).val) = ToLower(t)
            ELSE Unwrap(ret) = Err(ApiError("BadBlob"))

\* C7 (amended): on status 200 blob_upload parses the response body without
\* its surrounding whitespace and nothing else removed; it returns that ID
\* when the trimmed body is 32 hex digits, and otherwise the error surfaced
\* is BadBlobId, the error of BlobId::from_str.
C7_UploadResponse ==
    BlobBodyRead =>
        LET t == Trimmed(Unwrap(Unwrap(response).body))
        IN  /\ Unwrap(response).status = 200
            /\ IsTrimOf(t, Unwrap(Unwrap(response).body))
            /\ IF IsHex32(t)
               THEN /\ Unwrap(ret).ok
                    /\ LowerStr(Unwrap(ret).val) = ToLower(t)
               ELSE Unwrap(ret) = Err(ApiError("BadBlobId"))

\* A body of 32 digits between a space and a newline gave the ID.
C7_WitnessAccepted ==
    /\ BlobBodyRead
    /\ Unwrap(Unwrap(response).body) = << 32 >> \o LowerStr(TestVector) \o << 10 >>
    /\ Unwrap(ret) = Ok(TestVector)

\* A body with a space inside its 32 characters gave BadBlobId.
C7_Witness ==
    /\ BlobBodyRead
    /\ Unwrap(Unwrap(response).body)
         = << 10 >> \o [LowerStr(TestVector) EXCEPT ![16] = 32] \o << 10 >>
    /\ Unwrap(ret) = Err(ApiError("BadBlobId"))

ParamsBuilt == fn \in {"send_simple", "send_e2e"} /\ IsSome(params)

RecipientKeys == {"to", "phone", "email"}

\* The key send_simple uses for each kind of recipient.
KeyOf(tag) ==
    CASE tag = "Id" -> "to" [] tag = "Phone" -> "phone" [] tag = "Email" -> "email"

\* C8 as stated: every parameter map of send_simple and send_e2e has from,
\* secret and exactly one of to, phone, email, with the caller's values, and
\* for send_e2e nonce and box in lower-case hex, for every recipient and
\* every additional_params map, also one that carries these keys.
C8_AsStated ==
    ParamsBuilt =>
        LET p == Unwrap(params)
            a == Unwrap(args)
        IN  /\ {"from", "secret"} \subseteq DOMAIN p
            /\ p["from"] = a.from
            /\ p["secret"] = a.secret
            /\ Cardinality(DOMAIN p \cap RecipientKeys) = 1
            /\ fn = "send_simple" => p[KeyOf(a.to.tag)] = a.to.val
            /\ fn = "send_e2e" =>
                 /\ p["to"] = a.to
                 /\ p["nonce"] = LowerStr(a.nonce)
                 /\ p["box"] = LowerStr(a.ciphertext)

\* C8 (amended): every parameter map of send_simple and send_e2e has from
\* and secret with the caller's values.  For send_simple it has exactly one
\* of to, phone, email: the key of the recipient variant, with its value.
\* For send_e2e it has to with the caller's recipient and nonce and box in
\* lower-case hex, whatever additional_params holds under these five keys;
\* phone and email are present exactly when additional_params carries them,
\* with the values it gave, so the map has one recipient key only then when
\* additional_params has neither.
C8_ParameterMaps ==
    ParamsBuilt =>
        LET p == Unwrap(params)
            a == Unwrap(args)
        IN  /\ {"from", "secret"} \subseteq DOMAIN p
            /\ p["from"] = a.from
            /\ p["secret"] = a.secret
            /\ fn = "send_simple" =>
                 /\ DOMAIN p \cap RecipientKeys = {KeyOf(a.to.tag)}
                 /\ p[KeyOf(a.to.tag)] = a.to.val
                 /\ DOMAIN p = {"from", "text", "secret", KeyOf(a.to.tag)}
                 /\ p["text"] = a.text
            /\ fn = "send_e2e" =>
                 LET extra == IF IsSome(a.additional_params)
                              THEN Unwrap(a.additional_params) ELSE << >>
                 IN  /\ {"to", "nonce", "box"} \subseteq DOMAIN p
                     /\ p["to"] = a.to
                     /\ p["nonce"] = LowerStr(a.nonce)
                     /\ p["box"] = LowerStr(a.ciphertext)
                     /\ \A k \in {"phone", "email"} :
                           /\ k \in DOMAIN p <=> k \in DOMAIN extra
                           /\ k \in DOMAIN p => p[k] = extra[k]
            /\ IsSome(request) => Unwrap(request).form = Some(p)

\* send_e2e built its map from an additional_params map that carried its
\* own from and secret, and the request went out with the caller's.
C8_Witness ==
    /\ fn = "send_e2e"
    /\ IsSome(request)
    /\ IsSome(Unwrap(args).additional_params)
    /\ "from" \in DOMAIN Unwrap(Unwrap(args).additional_params)
    /\ Unwrap(Unwrap(request).form)["from"] = Unwrap(args).from
    /\ Unwrap(args).nonce = << 0, 1, 15, 16, 255 >>

\* The places of body where the delimiter "--" token starts a line.
DelimiterAt(body, token) ==
    LET d == << 45, 45 >> \o token
    IN  { i \in 1..Len(body) :
            /\ i + Len(d) - 1 <= Len(body)
            /\ SubSeq(body, i, i + Len(d) - 1) = d
            /\ \/ i = 1
               \/ i > 2 /\ body[i - 2] = 13 /\ body[i - 1] = 10 }

\* The payloads of the parts of body: a part lies between two delimiters
\* that follow each other, and its payload between the blank line that ends
\* its headers and the line break before the next delimiter (a part without
\* a blank line has no payload).
PartPayloads(body, token) ==
    LET at == DelimiterAt(body, token)
        next(i) == CHOOSE j \in at : j > i /\ \A k \in at : k > i => j <= k
        blanks(i) == { k \in i..(Len(body) - 3) :
                         SubSeq(body, k, k + 3) = << 13, 10, 13, 10 >> }
        blank(i) == IF blanks(i) = {} THEN Len(body)
                    ELSE CHOOSE k \in blanks(i) : \A m \in blanks(i) : k <= m
    IN  { << i, SubSeq(body, blank(i) + 4, next(i) - 3) >> :
            i \in { i \in at : \E j \in at : j > i } }

HasSubSeq(q, x) ==
    \E i \in 1..(Len(q) - Len(x) + 1) : SubSeq(q, i, i + Len(x) - 1) = x

\* The body of C9, written out with the token named in the content type.
SinglePartBody(token, ciphertext) ==
    << 45, 45 >> \o token \o << 13, 10 >>
      \o AsBytes(<<
    "C", "o", "n", "t", "e", "n", "t", "-", "D", "i", "s", "p", "o", "s", "i", "t",
    "i", "o", "n", ":", " ", "f", "o", "r", "m", "-", "d", "a", "t", "a", ";", " ",
    "n", "a", "m", "e", "=", "\"", "b", "l", "o", "b", "\"" >>) \o << 13, 10 >>
      \o AsBytes(<<
    "C", "o", "n", "t", "e", "n", "t", "-", "T", "y", "p", "e", ":", " ", "a", "p",
    "p", "l", "i", "c", "a", "t", "i", "o", "n", "/", "o", "c", "t", "e", "t", "-",
    "s", "t", "r", "e", "a", "m" >>) \o << 13, 10 >>
      \o << 13, 10 >>
      \o ciphertext
      \o << 13, 10 >> \o << 45, 45 >> \o token \o << 45, 45 >> \o << 13, 10 >>

BodyBuilt == fn = "blob_upload" /\ pc \in {"send", "classify"} /\ IsSome(request)

\* C9 as stated: for every ciphertext the body is the opening delimiter
\* line, the two part headers, a blank line, the ciphertext, and the closing
\* delimiter line, with the token of the content type; splitting it at the
\* delimiter yields exactly one part, whose payload is the ciphertext.
C9_AsStated ==
    BodyBuilt =>
        LET r == Unwrap(request)
            c == Unwrap(args).ciphertext
        IN  /\ r.body = SinglePartBody(r.content_type.boundary, c)
            /\ { x[2] : x \in PartPayloads(r.body, r.content_type.boundary) } = {c}
            /\ Cardinality(PartPayloads(r.body, r.content_type.boundary)) = 1

\* C9 (amended): for every ciphertext the body is the opening delimiter
\* line, the two part headers, a blank line, the ciphertext, and the closing
\* delimiter line, with the token of the content type; for every ciphertext
\* that does not hold the delimiter ("--" and the token), splitting the body
\* at the delimiter yields exactly one part, whose payload is the ciphertext.
C9_UploadBody ==
    BodyBuilt =>
        LET r == Unwrap(request)
            c == Unwrap(args).ciphertext
        IN  /\ r.content_type.mime = "multipart/form-data"
            /\ r.body = SinglePartBody(r.content_type.boundary, c)
            /\ ~HasSubSeq(c, << 45, 45 >> \o r.content_type.boundary) =>
                 /\ { x[2] : x \in PartPayloads(r.body, r.content_type.boundary) } = {c}
                 /\ Cardinality(PartPayloads(r.body, r.content_type.boundary)) = 1

\* A ciphertext that holds the bare token, but not the delimiter, was
\* framed and sent.
C9_Witness ==
    /\ BodyBuilt
    /\ pc = "classify"
    /\ Len(Unwrap(args).ciphertext) = 44
    /\ Unwrap(args).ciphertext = Unwrap(request).content_type.boundary

Endpoint == fn \in {"send_simple", "send_e2e", "blob_upload"}

\* The error C10 expects for a status that is not 200.
ExpectedError(f, status) ==
    CASE status = 400 /\ f = "blob_upload" -> "BadBlob"
      [] status = 400 /\ f # "blob_upload" -> "BadSenderOrRecipient"
      [] status = 401 -> "BadCredentials"
      [] status = 402 -> "NoCredits"
      [] status = 404 -> "IdNotFound"
      [] status = 413 -> "MessageTooLong"
      [] status = 500 -> "ServerError"
      [] OTHER -> "Other"

Before(q, x, y) ==
    \A j \in 1..Len(q) : q[j] = y => \E i \in 1..(j - 1) : q[i] = x

\* C10: each endpoint classifies the response status before it reads the
\* body; on a 400 send_simple and send_e2e return BadSenderOrRecipient and
\* blob_upload returns BadBlob, never Other; on any status but 200 the call
\* ends with the mapped error and returns no body and no blob ID.
C10_StatusBeforeBody ==
    (Endpoint /\ IsSome(response)) =>
        LET st == Unwrap(response).status
        IN  /\ Before(steps, "map_response_code", "read_body")
            /\ st # 200 =>
                 /\ ~Contains(steps, "read_body")
                 /\ Unwrap(response).body = None
                 /\ pc \in {"classify", "done"}
                 /\ pc = "done" =>
                      /\ ~Unwrap(ret).ok
                      /\ Unwrap(ret).val = << >>
                      /\ Unwrap(ret).err.kind = ExpectedError(fn, st)
                      /\ st = 400 => Unwrap(ret).err.kind # "Other"
            /\ pc = "classify" => ret = None
            /\ (pc = "done" /\ Unwrap(ret).ok) => st = 200

\* blob_upload got a 400 and returned BadBlob without reading the body.
C10_Witness ==
    /\ fn = "blob_upload"
    /\ pc = "done"
    /\ IsSome(response)
    /\ Unwrap(response).status = 400
    /\ ret = Some(Err(ApiError("BadBlob")))
    /\ steps = << "client_init", "build_body", "send", "map_response_code" >>

============================================================================
